---- MODULE Spec2Model ----
(***************************************************************************)
(* A model of coverage_report.py: the coverage pipeline driven by main(),  *)
(* and its pure helpers abs_path_in_wsl, find_files / find_test_apps and   *)
(* the SF: rewriting loop of generate_info.                                *)
(*                                                                         *)
(* Text is modelled as sequences of one-character strings, so that split,  *)
(* lower and replace are computed the way the Python code computes them.   *)
(***************************************************************************)
EXTENDS Integers, Sequences, FiniteSets, TLC

VARIABLES
    \* ---- abs_path_in_wsl applied once and then to its own result
    pathPc,      \* "start" | "once" | "twice"
    pathIn,      \* the host path given to the first call
    pathOut1,    \* outcome of abs_path_in_wsl(pathIn)
    pathOut2,    \* outcome of abs_path_in_wsl(pathOut1.value)
    \* ---- the SF: rewriting of the aggregate report (generate_info, use_wsl)
    infoPc,      \* "start" | "loop" | "done" | "raised"
    infoOrig,    \* the report file as lcov left it
    infoFile,    \* the report file's content now
    infoData,    \* the lines read by readlines()
    infoIdx,     \* index in infoData of the next line of the for loop
    \* ---- find_test_apps on a directory tree
    findPc,      \* "start" | "returned" | "exit"
    windows,     \* platform.system() == "Windows"
    findTree,    \* the entries under start_path
    findApps,    \* the list find_test_apps returns
    findMsg,     \* the message of sys.exit, "" when there was none
    \* ---- main(): the pipeline
    pc,          \* the statement main() or the function it called is at
    args,        \* the namespace get_user_args returns (compiler, tool)
    use_wsl,     \* what detect_tools returned
    appRegion,   \* where the root directory's files lie relative to the cwd
    fs,          \* the coverage artifacts on disk
    fs0,         \* the coverage artifacts on disk when the run started
    apps,        \* test_apps, the list find_test_apps returned
    idx,         \* index of the running for loop
    work,        \* the list the running for loop goes over
    running,     \* the child processes that have not exited
    invoked,     \* every child process started so far
    stagesSeen,  \* the stages of the run, in the order they started
    exit,        \* how the script ended: status and message
    nonzeroSeen, \* some child process has exited with a non-zero status
    absent,      \* the probed tools that were not installed
    outputs      \* what the run has produced: "info", "html", "md"

pathVars == <<pathPc, pathIn, pathOut1, pathOut2>>
infoVars == <<infoPc, infoOrig, infoFile, infoData, infoIdx>>
findVars == <<findPc, windows, findTree, findApps, findMsg>>

mainVars == <<pc, args, use_wsl, appRegion, fs, fs0, apps, idx, work, running,
              invoked, stagesSeen, exit, nonzeroSeen, absent, outputs>>

vars == <<pathVars, infoVars, findVars, mainVars>>

----------------------------------------------------------------------------
(* Bounds of the model *)

\* longest host path, in characters, given to abs_path_in_wsl
MaxPathLen == 4

\* most lines of an aggregate report
MaxLines == 2

\* most entries of a directory tree
MaxFiles == 2

\* most files under the root directory of a run of main()
MaxApps == 2

\* most artifacts left on disk by a previous run
MaxStale == 1

----------------------------------------------------------------------------
(* Text helpers: Python's str methods on sequences of characters *)

UpperCase == <<"A", "B", "C", "D", "E", "F", "G", "H", "I", "J", "K", "L", "M",
               "N", "O", "P", "Q", "R", "S", "T", "U", "V", "W", "X", "Y", "Z">>
LowerCase == <<"a", "b", "c", "d", "e", "f", "g", "h", "i", "j", "k", "l", "m",
               "n", "o", "p", "q", "r", "s", "t", "u", "v", "w", "x", "y", "z">>

\* str.lower() on one character
LowerChar(c) ==
    IF \E i \in DOMAIN UpperCase : UpperCase[i] = c
    THEN LowerCase[CHOOSE i \in DOMAIN UpperCase : UpperCase[i] = c]
    ELSE c

\* str.lower()
Lower(s) == [i \in 1..Len(s) |-> LowerChar(s[i])]

\* str.replace(old, new) for one-character old and new
ReplaceChar(s, old, new) == [i \in 1..Len(s) |-> IF s[i] = old THEN new ELSE s[i]]

\* whether sub occurs in s at position i
OccursAt(s, sub, i) ==
    /\ i >= 1
    /\ i + Len(sub) - 1 <= Len(s)
    /\ SubSeq(s, i, i + Len(sub) - 1) = sub

\* Python's `sub in s`
StrIn(sub, s) == \E i \in 1..(Len(s) + 1) : OccursAt(s, sub, i)

\* position of the first occurrence of sub in s (0 when there is none)
RECURSIVE FindFrom(_, _, _)
FindFrom(s, sub, i) ==
    IF i + Len(sub) - 1 > Len(s) THEN 0
    ELSE IF OccursAt(s, sub, i) THEN i
    ELSE FindFrom(s, sub, i + 1)

\* str.split(sep): the list of the pieces between the occurrences of sep
RECURSIVE Split(_, _)
Split(s, sep) ==
    LET i == FindFrom(s, sep, 1)
    IN  IF i = 0 THEN <<s>>
        ELSE <<SubSeq(s, 1, i - 1)>> \o Split(SubSeq(s, i + Len(sep), Len(s)), sep)

----------------------------------------------------------------------------
(* abs_path_in_wsl *)

wsl_prefix_path == <<"/", "m", "n", "t", "/">>

\* A call's outcome: the returned string, or the exception that ended it.
Returned(v) == [raised |-> "", value |-> v]
Raised(e)   == [raised |-> e, value |-> <<>>]

\* abs_path_in_wsl(path): with a ':' in path the result is built from the
\* first two pieces of path.split(':'); without one, `tokens` is never
\* assigned and evaluating the argument of log(verbose, tokens) raises
\* UnboundLocalError, whatever verbose is.
AbsPathInWsl(path) ==
    IF StrIn(<<":">>, path)
    THEN LET tokens == Split(path, <<":">>)
         IN  Returned(ReplaceChar(wsl_prefix_path \o Lower(tokens[1]) \o tokens[2],
                                  "\\", "/"))
    ELSE Raised("UnboundLocalError")

\* the characters host paths are made of
PathAlphabet == {"C", "d", ":", "\\", "/", "a"}

RECURSIVE SeqsUpTo(_, _)
SeqsUpTo(S, n) ==
    IF n = 0 THEN {<<>>}
    ELSE LET shorter == SeqsUpTo(S, n - 1)
         IN  shorter \cup {Append(s, c) : s \in {t \in shorter : Len(t) = n - 1}, c \in S}

HostPaths == SeqsUpTo(PathAlphabet, MaxPathLen)

NoCall == [raised |-> "", value |-> <<>>]

PathIdle ==
    /\ pathPc = "off"
    /\ pathIn = <<>>
    /\ pathOut1 = NoCall
    /\ pathOut2 = NoCall

\* the first call, on the host path
Translate ==
    /\ pathPc = "start"
    /\ pathOut1' = AbsPathInWsl(pathIn)
    /\ pathPc' = "once"
    /\ UNCHANGED <<pathIn, pathOut2>>

\* a second call, on the path the first call returned
Retranslate ==
    /\ pathPc = "once"
    /\ pathOut1.raised = ""
    /\ pathOut2' = AbsPathInWsl(pathOut1.value)
    /\ pathPc' = "twice"
    /\ UNCHANGED <<pathIn, pathOut1>>

----------------------------------------------------------------------------
(* generate_info: the rewriting of the aggregate report under use_wsl *)

sf == <<"S", "F", ":">>

\* concatenation of a list of strings
RECURSIVE Concat(_)
Concat(ss) == IF ss = <<>> THEN <<>> ELSE Head(ss) \o Concat(Tail(ss))

\* file.readlines() of a file opened with newline='\n': the lines, each with
\* its line ending; a last line without one is kept as it is
RECURSIVE ReadLines(_)
ReadLines(text) ==
    LET i == FindFrom(text, <<"\n">>, 1)
    IN  IF text = <<>> THEN <<>>
        ELSE IF i = 0 THEN <<text>>
        ELSE <<SubSeq(text, 1, i)>> \o ReadLines(SubSeq(text, i + 1, Len(text)))

\* the lines an aggregate report is made of in the model
ReportLines ==
    { <<"S", "F", ":", "C", ":", "\\", "a", "\n">>,            \* SF:C:\a
      <<"S", "F", ":", "/", "a", "\n">>,                       \* SF:/a
      <<"S", "F", ":", "C", ":", "\\", "a", ":", "b", "\n">>,  \* SF:C:\a:b
      <<"F", "N", ":", "1", ",", "a", "S", "F", ":", ":", "f", "\n">>,  \* FN:1,aSF::f
      <<"D", "A", ":", "1", ",", "1", "\n">>,                  \* DA:1,1
      <<"e", "n", "d", "_", "o", "f", "_", "r", "e", "c", "o", "r", "d", "\n">> }

InfoIdle ==
    /\ infoPc = "off"
    /\ infoOrig = <<>>
    /\ infoFile = <<>>
    /\ infoData = <<>>
    /\ infoIdx = 0

\* lines 264-267: open 'r+', readlines(), seek(0), truncate(0)
InfoOpen ==
    /\ infoPc = "start"
    /\ infoData' = ReadLines(infoFile)
    /\ infoFile' = <<>>
    /\ infoIdx' = 1
    /\ infoPc' = "loop"
    /\ UNCHANGED infoOrig

\* What one turn of the loop (lines 270-277) writes for `line`; an exception
\* of abs_path_in_wsl leaves the loop before the write.
RewriteLine(line) ==
    IF StrIn(sf, line)
    THEN LET tokens   == Split(line, sf)
             abs_path == AbsPathInWsl(tokens[2])
         IN  IF abs_path.raised # "" THEN abs_path
             ELSE Returned(sf \o abs_path.value)
    ELSE Returned(line)

\* one turn of the for loop
InfoLine ==
    /\ infoPc = "loop"
    /\ infoIdx <= Len(infoData)
    /\ LET out == RewriteLine(infoData[infoIdx])
       IN  IF out.raised # ""
           THEN /\ infoPc' = "raised"
                /\ UNCHANGED <<infoFile, infoIdx>>
           ELSE /\ infoFile' = infoFile \o out.value
                /\ infoIdx' = infoIdx + 1
                /\ infoPc' = "loop"
    /\ UNCHANGED <<infoOrig, infoData>>

\* the loop is over; the with statement closes the file
InfoClose ==
    /\ infoPc = "loop"
    /\ infoIdx > Len(infoData)
    /\ infoPc' = "done"
    /\ UNCHANGED <<infoOrig, infoFile, infoData, infoIdx>>

----------------------------------------------------------------------------
(* find_files and find_test_apps *)

FILENAME_FRAGMENT == <<"t", "e", "s", "t">>

\* PurePath.stem: the name without its last suffix; a dot that starts or ends
\* the name starts no suffix
RECURSIVE RFind(_, _, _)
RFind(s, c, i) == IF i = 0 THEN 0 ELSE IF s[i] = c THEN i ELSE RFind(s, c, i - 1)

Stem(name) ==
    LET i == RFind(name, ".", Len(name))
    IN  IF 1 < i /\ i < Len(name) THEN SubSeq(name, 1, i - 1) ELSE name

\* whether a name matches the rglob pattern "*" \o suffix
GlobMatch(suffix, name) ==
    /\ Len(suffix) <= Len(name)
    /\ SubSeq(name, Len(name) - Len(suffix) + 1, Len(name)) = suffix

\* find_files as it would be with file.name in place of file.stem
FindFilesInName(tree, file_pattern, extension) ==
    {file \in tree : /\ GlobMatch(extension, file.name)
                     /\ StrIn(Lower(file_pattern), Lower(file.name))}

\* find_files(file_pattern, extension, start_path); extension is the part
\* of the rglob pattern after its "*"
FindFiles(tree, file_pattern, extension) ==
    {file \in tree : /\ GlobMatch(extension, file.name)
                     /\ StrIn(Lower(file_pattern), Lower(Stem(file.name)))}

dot_exe == <<".", "e", "x", "e">>

\* the list find_test_apps builds (lines 123-131)
FindTestApps(tree, on_windows) ==
    IF on_windows
    THEN FindFiles(tree, FILENAME_FRAGMENT, dot_exe)
    ELSE {file \in FindFiles(tree, FILENAME_FRAGMENT, <<>>) :
              file.kind = "file" /\ file.exec}

\* the file names of the model's directory trees
FileNames ==
    { <<"t", "e", "s", "t">>,
      <<"a", "T", "e", "s", "t">>,
      <<"a", ".", "t", "e", "s", "t">>,
      <<"t", "e", "s", "t", ".", "c">>,
      <<".", "t", "e", "s", "t">>,
      <<"t", "e", "s", "t", ".", "e", "x", "e">>,
      <<"m", "a", "i", "n">> }

\* an entry under the root: a directory, or a regular file with or without
\* the execute permission, in the root itself or in a directory below it
Entries ==
    [dir : {".", "sub"}, name : FileNames, kind : {"file"}, exec : BOOLEAN]
    \cup [dir : {".", "sub"}, name : FileNames, kind : {"dir"}, exec : {TRUE}]

\* the subsets of S with at most n elements
RECURSIVE SubsetsUpTo(_, _)
SubsetsUpTo(S, n) ==
    IF n = 0 THEN {{}}
    ELSE LET smaller == SubsetsUpTo(S, n - 1)
         IN  smaller \cup {t \cup {e} : t \in smaller, e \in S}

FindIdle ==
    /\ findPc = "off"
    /\ windows = FALSE
    /\ findTree = {}
    /\ findApps = {}
    /\ findMsg = ""

\* find_test_apps(start_path)
FindTestAppsCall ==
    /\ findPc = "start"
    /\ LET test_apps == FindTestApps(findTree, windows)
       IN  IF test_apps = {}
           THEN /\ findPc' = "exit"
                /\ findMsg' = "No test application found!"
                /\ UNCHANGED findApps
           ELSE /\ findPc' = "returned"
                /\ findApps' = test_apps
                /\ UNCHANGED findMsg
    /\ UNCHANGED <<windows, findTree>>

----------------------------------------------------------------------------
(* main(): option values, exits, child processes *)

Compiler_CLANG == <<"c", "l", "a", "n", "g">>
Compiler_GCC   == <<"g", "c", "c">>
Tool_LCOV      == <<"l", "c", "o", "v">>
Tool_GCOVR     == <<"g", "c", "o", "v", "r">>

\* the values given to -c and to -t ("" when -t is not given)
CompilerOptions ==
    {Compiler_CLANG, Compiler_GCC, <<"C", "L", "A", "N", "G">>, <<"i", "c", "c">>}
ToolOptions ==
    {<<>>, Tool_LCOV, Tool_GCOVR, <<"L", "C", "O", "V">>}

\* the exit statuses of a child process
ExitCodes == {0, 1}

NoExit == [status |-> -1, msg |-> ""]

\* sys.exit(message), or an exception nothing catches: status 1
ExitWith(msg) ==
    /\ pc' = "exit"
    /\ exit' = [status |-> 1, msg |-> msg]

\* the stage `stage` starts, unless it is the one the run is in
Enter(stage) ==
    stagesSeen' = IF stagesSeen # <<>> /\ stagesSeen[Len(stagesSeen)] = stage
                  THEN stagesSeen
                  ELSE Append(stagesSeen, stage)

\* A child process: the command it runs, the first word of its argument
\* list, its path arguments, the stage that started it, whether it is a
\* '--version' probe, and whether the command is missing inside wsl.
Proc(cmd, argv0, paths, stage, probe, missing) ==
    [cmd |-> cmd, argv0 |-> argv0, paths |-> paths, stage |-> stage,
     probe |-> probe, missing |-> missing]

\* subprocess.run starts the child ...
Start(proc) ==
    /\ running' = running \cup {proc}
    /\ invoked' = invoked \cup {proc}

\* ... and returns when the child has exited
ChildExits(code) ==
    /\ running' = {}
    /\ nonzeroSeen' = (nonzeroSeen \/ code # 0)

TheChild == CHOOSE p \in running : TRUE

\* a set as a list, in some order (the order of rglob)
RECURSIVE SetToSeq(_)
SetToSeq(S) ==
    IF S = {} THEN <<>>
    ELSE LET e == CHOOSE x \in S : TRUE
         IN  <<e>> \o SetToSeq(S \ {e})

----------------------------------------------------------------------------
(* main(): the order of its calls *)

\* the calls of main() as they would be with clean_artifacts() after
\* run_test_apps()
MainCallsCleanLate ==
    <<"get_user_args", "detect_tools", "find_test_apps", "run_test_apps",
      "clean_artifacts", "report">>

\* the calls of main() up to the report generation, in their order
MainCalls ==
    <<"get_user_args", "detect_tools", "find_test_apps", "clean_artifacts",
      "run_test_apps", "report">>

\* the call of main() that follows `call`
CallAfter(call) ==
    MainCalls[(CHOOSE i \in DOMAIN MainCalls : MainCalls[i] = call) + 1]

----------------------------------------------------------------------------
(* get_user_args *)

GetUserArgs ==
    /\ pc = "get_user_args"
    /\ \E c \in CompilerOptions, t \in ToolOptions :
           LET tool == IF t # <<>> THEN t
                       ELSE IF c = Compiler_GCC THEN Tool_GCOVR
                       ELSE IF c = Compiler_CLANG THEN Tool_LCOV
                       ELSE t
           IN  /\ args' = [compiler |-> c, tool |-> tool]
               /\ IF Lower(c) # Compiler_CLANG /\ Lower(c) # Compiler_GCC
                  THEN ExitWith("Unsupported compiler")
                  ELSE IF Lower(tool) # Tool_LCOV /\ Lower(tool) # Tool_GCOVR
                  THEN ExitWith("Unsupported tool")
                  ELSE \E root_exists, report_dir_usable \in BOOLEAN :
                           IF ~root_exists
                           THEN ExitWith("Path is not available!")
                           ELSE IF ~report_dir_usable
                           THEN ExitWith("Path does not exist and could not be created!")
                           ELSE /\ pc' = CallAfter("get_user_args")
                                /\ UNCHANGED exit
    /\ UNCHANGED <<use_wsl, appRegion, fs, fs0, apps, idx, work, running, invoked,
                   stagesSeen, nonzeroSeen, absent, outputs>>

----------------------------------------------------------------------------
(* check_if_app_exists and detect_tools *)

\* check_if_app_exists(executable_name, use_wsl) up to subprocess.run: the
\* child starts, or FileNotFoundError is caught and the function returns
\* False, on which detect_tools exits with `message`.  With use_wsl the
\* child is wsl, found by the probe before; the command may be missing
\* inside it.
CheckIfAppExists(executable_name, via_wsl, message) ==
    /\ Enter("detect")
    /\ \/ /\ ~via_wsl
          /\ absent' = absent \cup {executable_name}
          /\ ExitWith(message)
          /\ UNCHANGED <<running, invoked>>
       \/ \E missing \in (IF via_wsl THEN BOOLEAN ELSE {FALSE}) :
              /\ Start(Proc(executable_name, IF via_wsl THEN "wsl" ELSE executable_name,
                            <<>>, "detect", TRUE, missing))
              /\ absent' = IF missing THEN absent \cup {executable_name} ELSE absent
              /\ pc' = "probing"
              /\ UNCHANGED exit
    /\ UNCHANGED <<args, use_wsl, appRegion, fs, fs0, apps, idx, work, nonzeroSeen,
                   outputs>>

\* the probe of the selected report tool, if main() selected one by name
ToolProbe ==
    IF args.tool = Tool_LCOV \/ args.tool = Tool_GCOVR THEN "probe_tool"
    ELSE CallAfter("detect_tools")

\* line 72, first operand
ProbeLlvmProfdata ==
    /\ pc = "detect_tools"
    /\ CheckIfAppExists("llvm-profdata", FALSE, "Clang tools not found!")

\* line 72, second operand
ProbeLlvmCov ==
    /\ pc = "probe_llvm_cov"
    /\ CheckIfAppExists("llvm-cov", FALSE, "Clang tools not found!")

\* lines 78-83
ProbeWsl ==
    /\ pc = "probe_wsl"
    /\ CheckIfAppExists("wsl", FALSE, "WSL not found!")

\* lines 86-96
ProbeTool ==
    /\ pc = "probe_tool"
    /\ CheckIfAppExists(IF args.tool = Tool_LCOV THEN "lcov" ELSE "gcovr", use_wsl,
                        "Linux tools not found!")

\* check_if_app_exists after subprocess.run: the child has exited, with any
\* status, and the function returns True (lines 64-66); detect_tools goes on.
ProbeReturns ==
    /\ pc = "probing"
    /\ \E code \in (IF TheChild.missing THEN {127} ELSE ExitCodes) :
           ChildExits(code)
    /\ use_wsl' = (use_wsl \/ TheChild.cmd = "wsl")
    /\ pc' = CASE TheChild.cmd = "llvm-profdata" -> "probe_llvm_cov"
               [] TheChild.cmd = "llvm-cov" -> IF windows THEN "probe_wsl" ELSE ToolProbe
               [] TheChild.cmd = "wsl" -> ToolProbe
               [] OTHER -> CallAfter("detect_tools")
    /\ UNCHANGED <<args, appRegion, fs, fs0, apps, idx, work, invoked, stagesSeen,
                   exit, absent, outputs>>

----------------------------------------------------------------------------
(* find_test_apps, clean_artifacts, run_test_apps as main() calls them *)

\* line 419
MainFindTestApps ==
    /\ pc = "find_test_apps"
    /\ FindTestAppsCall
    /\ Enter("discover")
    /\ IF findPc' = "exit"
       THEN /\ ExitWith(findMsg')
            /\ UNCHANGED apps
       ELSE /\ apps' = SetToSeq(findApps')
            /\ pc' = CallAfter("find_test_apps")
            /\ UNCHANGED exit
    /\ UNCHANGED <<args, use_wsl, appRegion, fs, fs0, idx, work, running, invoked,
                   nonzeroSeen, absent, outputs>>

dot_profraw  == <<".", "p", "r", "o", "f", "r", "a", "w">>
dot_profdata == <<".", "p", "r", "o", "f", "d", "a", "t", "a">>
dot_lcov     == <<".", "l", "c", "o", "v">>
dot_gcda     == <<".", "g", "c", "d", "a">>

\* the regions of the disk: below the cwd only, below the cwd and the root
\* directory, below the root directory only
Regions == {"cwd", "both", "root"}
BelowCwd  == {"cwd", "both"}
BelowRoot == {"both", "root"}

\* Path(start_path).rglob("*" + extension), for a start_path whose files
\* are those of `regions`
RGlob(files, regions, extension) ==
    {f \in files : f.region \in regions /\ GlobMatch(extension, f.name)}

\* clean_artifacts(start_path): lines 102-116, the four loops in their order
CleanArtifacts(files, regions) ==
    LET no_profraw  == files \ RGlob(files, regions, dot_profraw)
        no_profdata == no_profraw \ RGlob(no_profraw, regions, dot_profdata)
        no_lcov     == no_profdata \ RGlob(no_profdata, regions, dot_lcov)
    IN  no_lcov \ RGlob(no_lcov, regions, dot_gcda)

\* line 421: clean_artifacts() with no argument, so start_path is "."
MainCleanArtifacts ==
    /\ pc = "clean_artifacts"
    /\ Enter("cleanup")
    /\ fs' = CleanArtifacts(fs, BelowCwd)
    /\ pc' = CallAfter("clean_artifacts")
    /\ UNCHANGED <<args, use_wsl, appRegion, fs0, apps, idx, work, running, invoked,
                   exit, nonzeroSeen, absent, outputs>>

\* run_test_apps, one turn of its loop up to subprocess.run
RunTestApp ==
    /\ pc = "run_test_apps"
    /\ idx <= Len(apps)
    /\ Enter("execute")
    /\ Start(Proc("test_app", "test_app", <<apps[idx].name>>, "execute", FALSE, FALSE))
    /\ pc' = "testing"
    /\ UNCHANGED <<args, use_wsl, appRegion, fs, fs0, apps, idx, work, exit,
                   nonzeroSeen, absent, outputs>>

\* the file a test binary writes near itself when it exits, if it is
\* instrumented: <stem>.profraw, named by LLVM_PROFILE_FILE (lines 146-150),
\* or <stem>.gcda
Instrumentation(app) ==
    [region |-> appRegion,
     name |-> Stem(app.name) \o (IF Lower(args.compiler) = Compiler_CLANG
                                 THEN dot_profraw ELSE dot_gcda)]

\* the test binary has exited; check=True raises on a non-zero status
TestAppExits ==
    /\ pc = "testing"
    /\ \E code \in ExitCodes, wrote \in BOOLEAN :
           /\ ChildExits(code)
           /\ fs' = IF wrote THEN fs \cup {Instrumentation(apps[idx])} ELSE fs
           /\ IF code # 0
              THEN /\ ExitWith("CalledProcessError")
                   /\ UNCHANGED idx
              ELSE /\ idx' = idx + 1
                   /\ pc' = "run_test_apps"
                   /\ UNCHANGED exit
    /\ UNCHANGED <<args, use_wsl, appRegion, fs0, apps, work, invoked, stagesSeen,
                   absent, outputs>>

\* the loop of run_test_apps is over
RunTestAppsReturns ==
    /\ pc = "run_test_apps"
    /\ idx > Len(apps)
    /\ pc' = CallAfter("run_test_apps")
    /\ idx' = 1
    /\ UNCHANGED <<args, use_wsl, appRegion, fs, fs0, apps, work, running,
                   invoked, stagesSeen, exit, nonzeroSeen, absent, outputs>>

\* lines 426-447: which generator main() calls
MainReport ==
    /\ pc = "report"
    /\ IF args.tool = Tool_LCOV
       THEN /\ pc' = IF args.compiler = Compiler_CLANG THEN "generate_profdata"
                     ELSE "generate_info"
            /\ UNCHANGED exit
       ELSE IF args.tool = Tool_GCOVR
       THEN IF args.compiler = Compiler_GCC
            THEN /\ pc' = "generate_gcovr_report"
                 /\ UNCHANGED exit
            ELSE ExitWith("Unsupported combination of compiler and coverage tool")
       ELSE /\ pc' = "generate_coverage_md"
            /\ UNCHANGED exit
    /\ UNCHANGED <<args, use_wsl, appRegion, fs, fs0, apps, idx, work, running,
                   invoked, stagesSeen, nonzeroSeen, absent, outputs>>

----------------------------------------------------------------------------
(* Paths given to the report tools *)

\* args.coverage_report_dir, made absolute by os.path.abspath
coverage_report_dir == IF windows THEN <<"C", ":", "\\", "o">> ELSE <<"/", "o">>

\* args.coverage_report_name
coverage_report_name == <<"c", ".", "i">>

\* args.root_dir as Path.as_posix() prints it
root_dir_posix == IF windows THEN <<"C", ":", "/", "r">> ELSE <<"/", "r">>

\* os.path.join
OsPathJoin(a, b) == a \o <<IF windows THEN "\\" ELSE "/">> \o b

\* os.path.splitext(name)[0] + extension
WithExtension(name, extension) == Stem(name) \o extension

\* find_files(FILENAME_FRAGMENT, "*" + extension, args.root_dir)
FindArtifacts(extension) ==
    FindFiles({f \in fs : f.region \in BelowRoot}, FILENAME_FRAGMENT, extension)

----------------------------------------------------------------------------
(* generate_profdata and generate_lcov *)

\* lines 165-169
GenerateProfdata ==
    /\ pc = "generate_profdata"
    /\ Enter("merge_profdata")
    /\ LET profraw_files == FindArtifacts(dot_profraw)
       IN  IF profraw_files = {}
           THEN /\ ExitWith("No .profraw files found!")
                /\ UNCHANGED <<work, idx>>
           ELSE /\ work' = SetToSeq(profraw_files)
                /\ idx' = 1
                /\ pc' = "profdata_loop"
                /\ UNCHANGED exit
    /\ UNCHANGED <<args, use_wsl, appRegion, fs, fs0, apps, running, invoked,
                   nonzeroSeen, absent, outputs>>

\* lines 171-174, up to subprocess.run
MergeProfraw ==
    /\ pc = "profdata_loop"
    /\ idx <= Len(work)
    /\ Start(Proc("llvm-profdata", "llvm-profdata", <<work[idx].name>>,
                  "merge_profdata", FALSE, FALSE))
    /\ pc' = "profdata_merging"
    /\ UNCHANGED <<args, use_wsl, appRegion, fs, fs0, apps, idx, work, stagesSeen,
                   exit, nonzeroSeen, absent, outputs>>

\* llvm-profdata has exited; on success it has written the .profdata file
MergeProfrawExits ==
    /\ pc = "profdata_merging"
    /\ \E code \in ExitCodes :
           /\ ChildExits(code)
           /\ IF code # 0
              THEN /\ ExitWith("CalledProcessError")
                   /\ UNCHANGED <<fs, idx>>
              ELSE /\ fs' = fs \cup {[region |-> work[idx].region,
                                      name |-> WithExtension(work[idx].name, dot_profdata)]}
                   /\ idx' = idx + 1
                   /\ pc' = "profdata_loop"
                   /\ UNCHANGED exit
    /\ UNCHANGED <<args, use_wsl, appRegion, fs0, apps, work, invoked, stagesSeen,
                   absent, outputs>>

\* generate_profdata returns; generate_lcov, lines 178-182
GenerateLcov ==
    /\ pc = "profdata_loop"
    /\ idx > Len(work)
    /\ Enter("merge_lcov")
    /\ IF FindArtifacts(dot_profdata) = {}
       THEN /\ ExitWith("No .profdata files found! Exiting!")
            /\ UNCHANGED idx
       ELSE /\ idx' = 1
            /\ pc' = "lcov_loop"
            /\ UNCHANGED exit
    /\ UNCHANGED <<args, use_wsl, appRegion, fs, fs0, apps, work, running, invoked,
                   nonzeroSeen, absent, outputs>>

\* lines 184-188, up to subprocess.run: the .lcov file is opened for writing
ExportLcov ==
    /\ pc = "lcov_loop"
    /\ idx <= Len(apps)
    /\ fs' = fs \cup {[region |-> appRegion,
                       name |-> WithExtension(apps[idx].name, dot_lcov)]}
    /\ Start(Proc("llvm-cov", "llvm-cov", <<apps[idx].name>>, "merge_lcov", FALSE, FALSE))
    /\ pc' = "lcov_exporting"
    /\ UNCHANGED <<args, use_wsl, appRegion, fs0, apps, idx, work, stagesSeen, exit,
                   nonzeroSeen, absent, outputs>>

\* llvm-cov has exited
ExportLcovExits ==
    /\ pc = "lcov_exporting"
    /\ \E code \in ExitCodes :
           /\ ChildExits(code)
           /\ IF code # 0
              THEN /\ ExitWith("CalledProcessError")
                   /\ UNCHANGED idx
              ELSE /\ idx' = idx + 1
                   /\ pc' = "lcov_loop"
                   /\ UNCHANGED exit
    /\ UNCHANGED <<args, use_wsl, appRegion, fs, fs0, apps, work, invoked,
                   stagesSeen, absent, outputs>>

\* generate_lcov returns
GenerateLcovReturns ==
    /\ pc = "lcov_loop"
    /\ idx > Len(apps)
    /\ pc' = "generate_info"
    /\ UNCHANGED <<args, use_wsl, appRegion, fs, fs0, apps, idx, work, running,
                   invoked, stagesSeen, exit, nonzeroSeen, absent, outputs>>

----------------------------------------------------------------------------
(* generate_info *)

\* the outcomes of abs_path_in_wsl on each path of a list
WslPaths(paths) == [i \in DOMAIN paths |-> AbsPathInWsl(paths[i])]

SomeRaised(outcomes) == \E i \in DOMAIN outcomes : outcomes[i].raised # ""

Values(outcomes) == [i \in DOMAIN outcomes |-> outcomes[i].value]

\* the child generate_info_clang starts, or the exception that ends it
\* (lines 199-216)
InfoClangCommand ==
    LET output_file == OsPathJoin(coverage_report_dir, coverage_report_name)
        lcov_files  == SetToSeq(FindArtifacts(dot_lcov))
        lines       == [i \in DOMAIN lcov_files |->
                            root_dir_posix \o <<"/">> \o lcov_files[i].name]
        paths       == lines \o <<output_file>>
    IN  IF ~use_wsl
        THEN Returned(Proc("lcov", "lcov", paths, "merge_info", FALSE, FALSE))
        ELSE IF SomeRaised(WslPaths(paths))
        THEN Raised("UnboundLocalError")
        ELSE Returned(Proc("lcov", "wsl", Values(WslPaths(paths)), "merge_info",
                           FALSE, FALSE))

\* the child generate_info_gcc starts, or the exception that ends it (lines
\* 232-246): with use_wsl, args.insert runs before args is assigned
InfoGccCommand ==
    LET output_file == OsPathJoin(coverage_report_dir, coverage_report_name)
    IN  IF use_wsl
        THEN Raised("UnboundLocalError")
        ELSE Returned(Proc("lcov", "lcov", <<output_file>>, "merge_info", FALSE, FALSE))

\* a call that ends in a child process or in an exception
StartOrRaise(command, waiting) ==
    IF command.raised # ""
    THEN /\ ExitWith(command.raised)
         /\ UNCHANGED <<running, invoked>>
    ELSE /\ Start(command.value)
         /\ pc' = waiting
         /\ UNCHANGED exit

\* generate_info with compiler == Compiler.CLANG: generate_info_clang
GenerateInfoClang ==
    /\ pc = "generate_info"
    /\ args.compiler = Compiler_CLANG
    /\ Enter("merge_info")
    /\ IF FindArtifacts(dot_lcov) = {}
       THEN /\ ExitWith("No .profdata files found!")
            /\ UNCHANGED <<running, invoked>>
       ELSE StartOrRaise(InfoClangCommand, "info_merging")
    /\ UNCHANGED <<args, use_wsl, appRegion, fs, fs0, apps, idx, work, nonzeroSeen,
                   absent, outputs>>

\* generate_info with compiler == Compiler.GCC: generate_info_gcc
GenerateInfoGcc ==
    /\ pc = "generate_info"
    /\ args.compiler = Compiler_GCC
    /\ Enter("merge_info")
    /\ IF FindArtifacts(dot_gcda) = {}
       THEN /\ ExitWith("No .gcda files found!")
            /\ UNCHANGED <<running, invoked>>
       ELSE StartOrRaise(InfoGccCommand, "info_merging")
    /\ UNCHANGED <<args, use_wsl, appRegion, fs, fs0, apps, idx, work, nonzeroSeen,
                   absent, outputs>>

\* generate_info with any other compiler (lines 258-259)
GenerateInfoUnexpected ==
    /\ pc = "generate_info"
    /\ args.compiler # Compiler_CLANG
    /\ args.compiler # Compiler_GCC
    /\ ExitWith("Unexpected compiler")
    /\ UNCHANGED <<args, use_wsl, appRegion, fs, fs0, apps, idx, work, running,
                   invoked, stagesSeen, nonzeroSeen, absent, outputs>>

\* lcov has exited; on success it has written the aggregate report, whose
\* content is the tool's.  With use_wsl generate_info goes on to rewrite it.
InfoExits ==
    /\ pc = "info_merging"
    /\ \E code \in ExitCodes :
           /\ ChildExits(code)
           /\ IF code # 0
              THEN /\ ExitWith("CalledProcessError")
                   /\ UNCHANGED outputs
                   /\ UNCHANGED infoVars
              ELSE /\ outputs' = outputs \cup {"info"}
                   /\ UNCHANGED exit
                   /\ IF use_wsl
                      THEN /\ pc' = "rewrite_info"
                           /\ \E line \in ReportLines :
                                  /\ infoOrig' = line
                                  /\ infoFile' = line
                           /\ infoPc' = "start"
                           /\ UNCHANGED <<infoData, infoIdx>>
                      ELSE /\ pc' = "generate_html_report"
                           /\ UNCHANGED infoVars
    /\ UNCHANGED <<args, use_wsl, appRegion, fs, fs0, apps, idx, work, invoked,
                   stagesSeen, absent>>

\* lines 263-277 are over: generate_info returns, or the exception of
\* abs_path_in_wsl ends the run
GenerateInfoReturns ==
    /\ pc = "rewrite_info"
    /\ infoPc \in {"done", "raised"}
    /\ IF infoPc = "raised"
       THEN ExitWith("UnboundLocalError")
       ELSE /\ pc' = "generate_html_report"
            /\ UNCHANGED exit
    /\ UNCHANGED <<args, use_wsl, appRegion, fs, fs0, apps, idx, work, running,
                   invoked, stagesSeen, nonzeroSeen, absent, outputs>>

----------------------------------------------------------------------------
(* generate_html_report, generate_gcovr_report, generate_coverage_md *)

\* the child generate_html_report starts (lines 311-325)
HtmlCommand ==
    LET input_file == OsPathJoin(coverage_report_dir, coverage_report_name)
        output_dir == coverage_report_dir
        paths      == <<input_file, output_dir>>
    IN  IF ~use_wsl
        THEN Returned(Proc("genhtml", "genhtml", paths, "html", FALSE, FALSE))
        ELSE IF SomeRaised(WslPaths(paths))
        THEN Raised("UnboundLocalError")
        ELSE Returned(Proc("genhtml", "wsl", Values(WslPaths(paths)), "html",
                           FALSE, FALSE))

\* generate_html_report up to subprocess.run; genhtml was never probed, and
\* subprocess.run raises FileNotFoundError when it is not on the path
GenerateHtmlReport ==
    /\ pc = "generate_html_report"
    /\ Enter("html")
    /\ \/ StartOrRaise(HtmlCommand, "html_rendering")
       \/ /\ ~use_wsl
          /\ ExitWith("FileNotFoundError")
          /\ UNCHANGED <<running, invoked>>
    /\ UNCHANGED <<args, use_wsl, appRegion, fs, fs0, apps, idx, work, nonzeroSeen,
                   absent, outputs>>

\* the child generate_gcovr_report starts, or the exception that ends it
\* (lines 293-303): with use_wsl, args.insert runs before args is assigned
GcovrCommand ==
    LET output_file == OsPathJoin(coverage_report_dir,
                                  <<"i", "n", "d", "e", "x", ".", "h", "t", "m", "l">>)
    IN  IF use_wsl
        THEN Raised("UnboundLocalError")
        ELSE Returned(Proc("gcovr", "gcovr", <<output_file>>, "html", FALSE, FALSE))

\* generate_gcovr_report up to subprocess.run
GenerateGcovrReport ==
    /\ pc = "generate_gcovr_report"
    /\ Enter("html")
    /\ IF FindArtifacts(dot_gcda) = {}
       THEN /\ ExitWith("No .gcda files found!")
            /\ UNCHANGED <<running, invoked>>
       ELSE StartOrRaise(GcovrCommand, "html_rendering")
    /\ UNCHANGED <<args, use_wsl, appRegion, fs, fs0, apps, idx, work, nonzeroSeen,
                   absent, outputs>>

\* genhtml or gcovr has exited; on success the HTML report is rendered
HtmlExits ==
    /\ pc = "html_rendering"
    /\ \E code \in ExitCodes :
           /\ ChildExits(code)
           /\ IF code # 0
              THEN /\ ExitWith("CalledProcessError")
                   /\ UNCHANGED outputs
              ELSE /\ outputs' = outputs \cup {"html"}
                   /\ pc' = "generate_coverage_md"
                   /\ UNCHANGED exit
    /\ UNCHANGED <<args, use_wsl, appRegion, fs, fs0, apps, idx, work, invoked,
                   stagesSeen, absent>>

\* line 447: docs/COVERAGE.md is written and main() returns; open() raises
\* FileNotFoundError when the cwd has no docs directory
GenerateCoverageMd ==
    /\ pc = "generate_coverage_md"
    /\ Enter("summary")
    /\ \E docs_exists \in BOOLEAN :
           IF docs_exists
           THEN /\ outputs' = outputs \cup {"md"}
                /\ pc' = "exit"
                /\ exit' = [status |-> 0, msg |-> ""]
           ELSE /\ ExitWith("FileNotFoundError")
                /\ UNCHANGED outputs
    /\ UNCHANGED <<args, use_wsl, appRegion, fs, fs0, apps, idx, work, running,
                   invoked, nonzeroSeen, absent>>

----------------------------------------------------------------------------
(* The specifications *)

MainIdle ==
    /\ pc = "off"
    /\ args = [compiler |-> <<>>, tool |-> <<>>]
    /\ use_wsl = FALSE
    /\ appRegion = "both"
    /\ fs = {}
    /\ fs0 = {}
    /\ apps = <<>>
    /\ idx = 1
    /\ work = <<>>
    /\ running = {}
    /\ invoked = {}
    /\ stagesSeen = <<>>
    /\ exit = NoExit
    /\ nonzeroSeen = FALSE
    /\ absent = {}
    /\ outputs = {}

\* the files under the root directory of a run of main()
RunEntries ==
    { [dir |-> ".", name |-> <<"t", "e", "s", "t">>, kind |-> "file", exec |-> TRUE],
      [dir |-> ".", name |-> <<"a", "T", "e", "s", "t">>, kind |-> "file", exec |-> TRUE],
      [dir |-> ".", name |-> <<"t", "e", "s", "t", ".", "c">>, kind |-> "file", exec |-> FALSE],
      [dir |-> ".", name |-> <<"t", "e", "s", "t", ".", "e", "x", "e">>, kind |-> "file",
       exec |-> TRUE] }

\* the artifacts a previous run may have left
StaleArtifacts ==
    [region : Regions,
     name : {FILENAME_FRAGMENT \o e : e \in {dot_profraw, dot_profdata, dot_lcov, dot_gcda}}]

\* main() starts: the host, the disk, and the test binaries are any
Init ==
    /\ pc = "get_user_args"
    /\ args = [compiler |-> <<>>, tool |-> <<>>]
    /\ use_wsl = FALSE
    /\ appRegion \in BelowRoot
    /\ fs \in SubsetsUpTo(StaleArtifacts, MaxStale)
    /\ fs0 = fs
    /\ apps = <<>>
    /\ idx = 1
    /\ work = <<>>
    /\ running = {}
    /\ invoked = {}
    /\ stagesSeen = <<>>
    /\ exit = NoExit
    /\ nonzeroSeen = FALSE
    /\ absent = {}
    /\ outputs = {}
    /\ findPc = "start"
    /\ windows \in BOOLEAN
    /\ findTree \in SubsetsUpTo(RunEntries, MaxApps)
    /\ findApps = {}
    /\ findMsg = ""
    /\ PathIdle
    /\ InfoIdle

Next ==
    \/ GetUserArgs /\ UNCHANGED <<pathVars, infoVars, findVars>>
    \/ ProbeLlvmProfdata /\ UNCHANGED <<pathVars, infoVars, findVars>>
    \/ ProbeLlvmCov /\ UNCHANGED <<pathVars, infoVars, findVars>>
    \/ ProbeWsl /\ UNCHANGED <<pathVars, infoVars, findVars>>
    \/ ProbeTool /\ UNCHANGED <<pathVars, infoVars, findVars>>
    \/ ProbeReturns /\ UNCHANGED <<pathVars, infoVars, findVars>>
    \/ MainFindTestApps /\ UNCHANGED <<pathVars, infoVars>>
    \/ MainCleanArtifacts /\ UNCHANGED <<pathVars, infoVars, findVars>>
    \/ RunTestApp /\ UNCHANGED <<pathVars, infoVars, findVars>>
    \/ TestAppExits /\ UNCHANGED <<pathVars, infoVars, findVars>>
    \/ RunTestAppsReturns /\ UNCHANGED <<pathVars, infoVars, findVars>>
    \/ MainReport /\ UNCHANGED <<pathVars, infoVars, findVars>>
    \/ GenerateProfdata /\ UNCHANGED <<pathVars, infoVars, findVars>>
    \/ MergeProfraw /\ UNCHANGED <<pathVars, infoVars, findVars>>
    \/ MergeProfrawExits /\ UNCHANGED <<pathVars, infoVars, findVars>>
    \/ GenerateLcov /\ UNCHANGED <<pathVars, infoVars, findVars>>
    \/ ExportLcov /\ UNCHANGED <<pathVars, infoVars, findVars>>
    \/ ExportLcovExits /\ UNCHANGED <<pathVars, infoVars, findVars>>
    \/ GenerateLcovReturns /\ UNCHANGED <<pathVars, infoVars, findVars>>
    \/ GenerateInfoClang /\ UNCHANGED <<pathVars, infoVars, findVars>>
    \/ GenerateInfoGcc /\ UNCHANGED <<pathVars, infoVars, findVars>>
    \/ GenerateInfoUnexpected /\ UNCHANGED <<pathVars, infoVars, findVars>>
    \/ InfoExits /\ UNCHANGED <<pathVars, findVars>>
    \/ pc = "rewrite_info" /\ InfoOpen /\ UNCHANGED <<pathVars, findVars, mainVars>>
    \/ pc = "rewrite_info" /\ InfoLine /\ UNCHANGED <<pathVars, findVars, mainVars>>
    \/ pc = "rewrite_info" /\ InfoClose /\ UNCHANGED <<pathVars, findVars, mainVars>>
    \/ GenerateInfoReturns /\ UNCHANGED <<pathVars, infoVars, findVars>>
    \/ GenerateHtmlReport /\ UNCHANGED <<pathVars, infoVars, findVars>>
    \/ GenerateGcovrReport /\ UNCHANGED <<pathVars, infoVars, findVars>>
    \/ HtmlExits /\ UNCHANGED <<pathVars, infoVars, findVars>>
    \/ GenerateCoverageMd /\ UNCHANGED <<pathVars, infoVars, findVars>>

Spec == Init /\ [][Next]_vars

InitPath ==
    /\ pathPc = "start"
    /\ pathIn \in HostPaths
    /\ pathOut1 = NoCall
    /\ pathOut2 = NoCall
    /\ InfoIdle
    /\ FindIdle
    /\ MainIdle

NextPath ==
    \/ Translate /\ UNCHANGED <<infoVars, findVars, mainVars>>
    \/ Retranslate /\ UNCHANGED <<infoVars, findVars, mainVars>>

SpecPath == InitPath /\ [][NextPath]_vars

InitInfo ==
    /\ infoPc = "start"
    /\ \E lines \in SeqsUpTo(ReportLines, MaxLines) :
           /\ infoOrig = Concat(lines)
           /\ infoFile = Concat(lines)
    /\ infoData = <<>>
    /\ infoIdx = 0
    /\ PathIdle
    /\ FindIdle
    /\ MainIdle

NextInfo ==
    \/ InfoOpen /\ UNCHANGED <<pathVars, findVars, mainVars>>
    \/ InfoLine /\ UNCHANGED <<pathVars, findVars, mainVars>>
    \/ InfoClose /\ UNCHANGED <<pathVars, findVars, mainVars>>

SpecInfo == InitInfo /\ [][NextInfo]_vars

InitFind ==
    /\ findPc = "start"
    /\ windows \in BOOLEAN
    /\ findTree \in SubsetsUpTo(Entries, MaxFiles)
    /\ findApps = {}
    /\ findMsg = ""
    /\ PathIdle
    /\ InfoIdle
    /\ MainIdle

NextFind == FindTestAppsCall /\ UNCHANGED <<pathVars, infoVars, mainVars>>

SpecFind == InitFind /\ [][NextFind]_vars

----------------------------------------------------------------------------
(* Properties of abs_path_in_wsl, checked under SpecPath *)

IsLetter(c) ==
    \/ \E i \in DOMAIN UpperCase : UpperCase[i] = c
    \/ \E i \in DOMAIN LowerCase : LowerCase[i] = c

\* the path starts with a drive letter and a colon
HasDrivePrefix(path) ==
    /\ Len(path) >= 2
    /\ IsLetter(path[1])
    /\ path[2] = ":"

\* "/mnt/", the lower-cased drive letter, and the whole rest of the path with
\* forward slashes
MntForm(path) ==
    wsl_prefix_path \o <<LowerChar(path[1])>>
        \o ReplaceChar(SubSeq(path, 3, Len(path)), "\\", "/")

\* C4: for every host path with a drive prefix X:, abs_path_in_wsl returns
\* "/mnt/" followed by the lower-cased drive letter followed by the whole
\* rest of the path with every backslash replaced by a forward slash.
C4_WholeRestTranslated ==
    (pathPc \in {"once", "twice"} /\ HasDrivePrefix(pathIn))
        => pathOut1 = Returned(MntForm(pathIn))

\* C6: for every host path with a drive prefix, abs_path_in_wsl applied to the
\* already translated path returns normally, and returns that path unchanged.
C6_RetranslationIsNoOp ==
    (pathPc = "twice" /\ HasDrivePrefix(pathIn))
        => /\ pathOut2.raised = ""
           /\ pathOut2.value = pathOut1.value

----------------------------------------------------------------------------
(* Properties of the SF: rewriting, checked under SpecInfo *)

\* what the rewriting is to make of one line of the report
RewrittenForm(line) ==
    IF OccursAt(line, sf, 1)
    THEN LET rest == SubSeq(line, Len(sf) + 1, Len(line))
         IN  sf \o (IF HasDrivePrefix(rest) THEN MntForm(rest) ELSE rest)
    ELSE line

\* C5: once generate_info has rewritten the report, every line that began
\* with SF: is SF: followed by the translated form of its path, and every
\* other line is in the file unchanged and in its original position.
C5_OnlySFLinesRewritten ==
    infoPc = "done"
        => LET lines == ReadLines(infoOrig)
           IN  infoFile = Concat([i \in 1..Len(lines) |-> RewrittenForm(lines[i])])

----------------------------------------------------------------------------
(* Properties of find_test_apps, checked under SpecFind *)

\* position j of the name is the dot that starts its last suffix
StartsSuffix(name, j) ==
    /\ 1 < j /\ j < Len(name)
    /\ name[j] = "."
    /\ \A m \in (j + 1)..Len(name) : name[m] # "."

\* the fragment occurs, in any case, in the name
NameHasFragment(name) ==
    \E i \in 1..Len(name) :
        /\ i + Len(FILENAME_FRAGMENT) - 1 <= Len(name)
        /\ \A k \in 1..Len(FILENAME_FRAGMENT) :
               LowerChar(name[i + k - 1]) = FILENAME_FRAGMENT[k]

\* the fragment occurs, in any case, before the dot of the last suffix
StemHasFragment(name) ==
    \E i \in 1..Len(name) :
        /\ i + Len(FILENAME_FRAGMENT) - 1 <= Len(name)
        /\ \A k \in 1..Len(FILENAME_FRAGMENT) :
               LowerChar(name[i + k - 1]) = FILENAME_FRAGMENT[k]
        /\ \A j \in 1..(i + Len(FILENAME_FRAGMENT) - 1) : ~StartsSuffix(name, j)

----------------------------------------------------------------------------
(* Properties of a run of main(), checked under Spec *)

Stages == {stagesSeen[i] : i \in DOMAIN stagesSeen}

\* a test binary has been started
TestsStarted == \E p \in invoked : p.cmd = "test_app"

\* C1: once any child process (a '--version' probe, a test binary,
\* llvm-profdata, llvm-cov, lcov, gcovr or genhtml) has exited with a
\* non-zero status, the run is over with a non-zero exit status: no other
\* child is started and docs/COVERAGE.md is not written.
C1_NonZeroExitAborts ==
    nonzeroSeen
        => /\ pc = "exit"
           /\ exit.status # 0
           /\ running = {}
           /\ "md" \notin outputs

\* C2: when a probed tool (llvm-profdata, llvm-cov, wsl, the selected report
\* tool, natively or through wsl) is absent, the run does not reach the
\* cleanup stage, runs no test binary, creates and deletes no artifact, and
\* its exit status is not zero.
C2_AbsentToolStopsBeforeCleanup ==
    absent # {}
        => /\ "cleanup" \notin Stages
           /\ ~TestsStarted
           /\ fs = fs0
           /\ pc = "exit" => exit.status # 0

\* the order of the stages of a run
StageOrder ==
    <<"detect", "discover", "cleanup", "execute", "merge_profdata", "merge_lcov",
      "merge_info", "html", "summary">>

Rank(stage) == CHOOSE i \in DOMAIN StageOrder : StageOrder[i] = stage

\* C7: the stages of a run start in the order tool detection, discovery,
\* cleanup, test execution, .profraw merges, .lcov exports, aggregate merge,
\* HTML rendering, summary; the first four are never skipped, for clang the
\* exports follow the merges and the aggregate merge follows the exports; at
\* most one child process runs at any time, and it belongs to the stage the
\* run is in, so no stage starts while a child of an earlier stage runs.
C7_StagesInOrder ==
    /\ \A i, j \in DOMAIN stagesSeen :
           i < j => Rank(stagesSeen[i]) < Rank(stagesSeen[j])
    /\ \A i \in DOMAIN stagesSeen : i <= 4 => stagesSeen[i] = StageOrder[i]
    /\ "merge_lcov" \in Stages => "merge_profdata" \in Stages
    /\ ("merge_info" \in Stages /\ args.compiler = Compiler_CLANG)
           => "merge_lcov" \in Stages
    /\ Cardinality(running) <= 1
    /\ \A p \in running : p.stage = stagesSeen[Len(stagesSeen)]

\* a clang run over two test binaries went through every stage and ended
\* with status 0
C7_Witness ==
    /\ pc = "exit"
    /\ exit.status = 0
    /\ Len(apps) = 2
    /\ stagesSeen = StageOrder
    /\ \E p \in invoked : p.cmd = "genhtml"

\* C8: after the cleanup and before the first test binary runs, no .profraw,
\* .profdata, .lcov or .gcda file is left below the root directory.
C8_RootCleanBeforeTests ==
    (pc = "run_test_apps" /\ "cleanup" \in Stages /\ ~TestsStarted)
        => \A e \in {dot_profraw, dot_profdata, dot_lcov, dot_gcda} :
               RGlob(fs, BelowRoot, e) = {}

\* a path in the form wsl mounts host drives under
InMntForm(path) ==
    /\ OccursAt(path, wsl_prefix_path, 1)
    /\ ~StrIn(<<":">>, path)
    /\ ~StrIn(<<"\\">>, path)

\* the run ended for want of input files of the stage it was in
NoInputFiles ==
    exit.msg \in {"No .gcda files found!", "No .profdata files found!"}

\* C9: with use_wsl, every lcov, gcovr and genhtml invocation has 'wsl' as
\* its first argument and its paths in the /mnt form, and a merge or
\* rendering stage that has its input files does invoke its tool.
C9_WslInvocations ==
    use_wsl
        => /\ \A p \in invoked :
                  (p.cmd \in {"lcov", "gcovr", "genhtml"} /\ ~p.probe)
                      => /\ p.argv0 = "wsl"
                         /\ \A i \in DOMAIN p.paths : InMntForm(p.paths[i])
           /\ (pc = "exit" /\ "merge_info" \in Stages /\ ~NoInputFiles)
                  => \E p \in invoked : p.cmd = "lcov" /\ ~p.probe
           /\ (pc = "exit" /\ "html" \in Stages /\ ~NoInputFiles)
                  => \E p \in invoked : p.cmd \in {"gcovr", "genhtml"} /\ ~p.probe

\* C10: docs/COVERAGE.md is written only after genhtml or gcovr has rendered
\* the HTML report in the same run.
C10_SummaryOnlyAfterHtml ==
    "md" \in outputs => "html" \in outputs

====
